---- MODULE Spec2Model ----
(***************************************************************************)
(* A state-machine model of the DJ controller (src/src/controller.js) and  *)
(* its audio chain (src/src/audio-chain.js).                               *)
(*                                                                         *)
(* JavaScript runs one handler at a time; a handler is atomic up to its    *)
(* next `await`.  Every action below is therefore one synchronous run of  *)
(* code: the part of an operation from its call to its first await, from   *)
(* one await to the next, a timer callback, or a frame callback.  What is  *)
(* suspended (awaiting calls, timers, frame callbacks) is kept in state.   *)
(***************************************************************************)
EXTENDS Integers, Sequences, FiniteSets

\* ------------------------------------------------------------------ bounds
\* Song instances ever constructed (each loadSong constructs a fresh one).
MaxSongs == 2
\* Visual instances ever constructed.
MaxVisuals == 2
\* loadSong / loadVisual / play / startCrossfade calls suspended at once.
MaxLoads == 2
MaxVisualLoads == 1
MaxPlays == 1
MaxXfades == 1
\* Crossfade completion timers pending at once.
MaxTimers == 2
\* Fade durations (seconds) a caller passes: 0..MaxDuration.
MaxDuration == 2
\* Calls of init() and of dispose() in one run.
MaxInitCalls == 1
MaxDisposeCalls == 1
\* The crossfade position is kept in units of 1/PosScale: 0 is position 0
\* (deck A), PosScale is position 1 (deck B).
PosScale == 2

\* ------------------------------------------------------------------- state
VARIABLES
  deckA, deckB,        \* this.deckA / this.deckB: a song id, or NoSong (null)
  activeDeck,          \* this.activeDeck
  visuals,             \* this.visuals: sequence of visual ids
  visualContainer,     \* this.visualContainer: TRUE once set by init()
  isInitialized,       \* this.isInitialized of the controller
  animationId,         \* this.animationId: a frame handle, or 0 (null)
  crossfade,           \* audioChain.crossfade and its `fade` parameter
  chainInitialized,    \* audioChain.isInitialized
  lastCommandBy,       \* the operation that issued the last position command
  \* the host: what is scheduled or suspended
  initPc,              \* init(): "idle", or "awaiting" audioChain.init()
  loads,               \* suspended loadSong calls
  visualLoads,         \* suspended loadVisual calls
  plays,               \* suspended play calls
  xfades,              \* startCrossfade calls awaiting inactiveSong.play()
  timers,              \* pending setTimeout callbacks of startCrossfade
  rafPending,          \* outstanding requestAnimationFrame handles
  \* the plugins, as far as the controller acts on them
  nextSong,            \* songs constructed so far
  songDisposed,        \* dispose() calls each song has received
  nextVisual,          \* visuals constructed so far
  visualDisposed,      \* dispose() calls each visual has received
  surfaces,            \* visuals whose canvas is attached to the container
  visualEpoch,         \* for a visual on the list or once on it: the number
                       \* of dispose() calls made before its loadVisual call
  \* the last step, for the properties
  failed,              \* whether the last step threw / rejected to its caller
  calls,               \* the <<song, method>> calls it made
  emitted,             \* the event it published on the bus, or NoEvent
  beforeSwitch,        \* if it was a switchDeck() with no fade in flight:
                       \* activeDeck and the position before it
  noop,                \* if it was a call that returned without doing
                       \* anything: the operation's name, otherwise "-"
  snapshot,            \* if it was a getAudioData() call: what it returned
  \* history, for the properties
  initCalls, disposeCalls,
  pristine,            \* no operation but init() has been called yet
  stoppedSincePlay     \* stop() was called and play() was not called since

ctrlVars == <<deckA, deckB, activeDeck, visuals, visualContainer, isInitialized,
              animationId>>
chainVars == <<crossfade, chainInitialized, lastCommandBy>>
hostVars == <<initPc, loads, visualLoads, plays, xfades, timers, rafPending>>
pluginVars == <<nextSong, songDisposed, nextVisual, visualDisposed, surfaces,
               visualEpoch>>
stepVars == <<failed, calls, emitted, beforeSwitch, noop, snapshot>>
histVars == <<initCalls, disposeCalls, pristine, stoppedSincePlay>>
vars == <<ctrlVars, chainVars, hostVars, pluginVars, stepVars, histVars>>

\* ----------------------------------------------------------------- helpers
Decks == {"A", "B"}
NoSong == 0
Songs == 1..MaxSongs
Visuals == 1..MaxVisuals
Durations == 0..MaxDuration

Other(d) == IF d = "A" THEN "B" ELSE "A"

\* The position value the controller commands for a deck: 0 = A, 1 = B.
PositionOf(d) == IF d = "A" THEN 0 ELSE PosScale

\* The deck a commanded position stands for.
DeckOfPosition(p) == IF p = 0 THEN "A" ELSE "B"

\* this.activeDeck === 'A' ? this.deckA : this.deckB
SongIn(d) == IF d = "A" THEN deckA ELSE deckB

RemoveAt(s, i) == SubSeq(s, 1, i - 1) \o SubSeq(s, i + 1, Len(s))

Range(s) == {s[i] : i \in DOMAIN s}

NoEvent == [topic |-> "none", deck |-> "-", to |-> "-", n |-> 0]
Event(t, d, to, n) == [topic |-> t, deck |-> d, to |-> to, n |-> n]

\* What the last step did, as the properties see it.
NoSwitch == [activeDeck |-> "-", value |-> -1, by |-> "-"]

LogStep(f, c, e, b) == /\ failed' = f
                       /\ calls' = c
                       /\ emitted' = e
                       /\ beforeSwitch' = b
                       /\ noop' = "-"
                       /\ snapshot' = "-"

Log(f, c, e) == LogStep(f, c, e, NoSwitch)

\* The last step was a call of operation `name` that took its early return
\* (or skipped its guarded body): no call on a song, no event, no error.
LogNoop(name) == /\ failed' = FALSE
                 /\ calls' = {}
                 /\ emitted' = NoEvent
                 /\ beforeSwitch' = NoSwitch
                 /\ noop' = name
                 /\ snapshot' = "-"

\* ------------------------------------------------------------- audio chain
\* audioChain.crossfade: null until AudioChain.init(), a live Tone.CrossFade
\* after it, a disposed one after AudioChain.dispose().  `value` is the
\* current position, `target` the value last commanded, `rem` the seconds
\* the running ramp still takes (0: no ramp).
NullCrossfade == [state |-> "null", value |-> 0, target |-> 0, rem |-> 0]

\* new Tone.CrossFade(): the library's default position is 0.5.
NewCrossfade == [state |-> "live", value |-> PosScale \div 2,
                 target |-> PosScale \div 2, rem |-> 0]

\* Whether a use of the crossfade node throws: a null node always does
\* (TypeError), a live one never; what a disposed Tone node does is not
\* fixed by this repository, so both outcomes are possible.
ChainUseThrows(cf) == IF cf.state = "null" THEN {TRUE}
                      ELSE IF cf.state = "live" THEN {FALSE}
                      ELSE BOOLEAN

\* AudioChain.setCrossfade(value, rampTime)
setCrossfade(cf, value, rampTime) ==
  IF rampTime > 0
    THEN [cf EXCEPT !.target = value, !.rem = rampTime]
    ELSE [cf EXCEPT !.value = value, !.target = value, !.rem = 0]

\* One second of the audio engine's ramp: the position moves toward the
\* target and reaches it when the ramp time is over.
RampStep(cf) ==
  IF cf.rem > 0
    THEN [cf EXCEPT !.value = cf.value + ((cf.target - cf.value) \div cf.rem),
                    !.rem = cf.rem - 1]
    ELSE cf

\* AudioChain.dispose()
chainDispose(cf) == IF cf.state = "null" THEN cf
                    ELSE [cf EXCEPT !.state = "disposed", !.rem = 0]

\* The five nodes of the chain are created together by init() and disposed
\* together by dispose(): crossfade.state is the state of each of them.
\* Variant: getAudioData() without its `if (!this.isInitialized)` test.
getAudioDataUnguarded ==
  IF crossfade.state = "null" THEN "throws"
  ELSE IF crossfade.state = "live" THEN "analysis"
  ELSE "released"

\* AudioChain.getAudioData(): "defaults" is the silent snapshot (zeroed
\* arrays, volume -Infinity); otherwise the analysers and the meter are
\* read: "analysis" from live nodes, "released" from disposed ones, and a
\* TypeError ("throws") from nodes that are still null.
getAudioData ==
  IF ~chainInitialized THEN "defaults" ELSE getAudioDataUnguarded

\* The values a caller passes to AudioChain.setCrossfade, in units of
\* 1/PosScale: the positions of [0, 1] and one value beyond each end.
PositionInputs == (0 - 1)..(PosScale + 1)

\* Whether the `fade` signal refuses a value: one within [0, 1] never; for
\* one outside, AudioChain.setCrossfade itself tests nothing and what the
\* Tone signal does (store it, or throw a RangeError) is not fixed by this
\* repository, so both outcomes are possible.
FadeRejects(value) == IF value \in 0..PosScale THEN {FALSE} ELSE BOOLEAN

\* ------------------------------------------------------------- render loop
\* requestAnimationFrame returns a handle it has not handed out before; the
\* smallest number that is neither outstanding nor still held stands for it.
FreshHandle(pending) ==
  CHOOSE h \in 1..(Cardinality(pending) + 2) :
    /\ h \notin pending
    /\ h # animationId
    /\ \A g \in 1..(h - 1) : g \in pending \/ g = animationId

\* render(): draw one frame, then this.animationId = requestAnimationFrame(render).
\* `pending` is the set of outstanding handles when render() runs.
RenderOnce(pending) ==
  [animationId |-> FreshHandle(pending),
   rafPending |-> pending \cup {FreshHandle(pending)}]

\* Variant: startRenderLoop() without its `if (this.animationId) return`.
startRenderLoopUnguarded == RenderOnce(rafPending)

\* startRenderLoop(): the [animationId, rafPending] it leaves
startRenderLoop ==
  IF animationId # 0
    THEN [animationId |-> animationId, rafPending |-> rafPending]
    ELSE RenderOnce(rafPending)

\* stopRenderLoop(): the [animationId, rafPending] it leaves
stopRenderLoop ==
  IF animationId # 0
    THEN [animationId |-> 0, rafPending |-> rafPending \ {animationId}]
    ELSE [animationId |-> animationId, rafPending |-> rafPending]

\* getState(), as far as the controller's own fields decide it
getState == [activeDeck |-> activeDeck,
             deckA |-> deckA,
             deckB |-> deckB,
             visuals |-> visuals]

\* -------------------------------------------------------------------- Init
\* The state after `new DJController()`.
Init ==
  /\ deckA = NoSong /\ deckB = NoSong
  /\ activeDeck = "A"
  /\ visuals = <<>>
  /\ visualContainer = FALSE
  /\ isInitialized = FALSE
  /\ animationId = 0
  /\ crossfade = NullCrossfade
  /\ chainInitialized = FALSE
  /\ lastCommandBy = "none"
  /\ initPc = "idle"
  /\ loads = <<>> /\ visualLoads = <<>> /\ plays = <<>> /\ xfades = <<>>
  /\ timers = <<>>
  /\ rafPending = {}
  /\ nextSong = 0
  /\ songDisposed = [s \in Songs |-> 0]
  /\ nextVisual = 0
  /\ visualDisposed = [v \in Visuals |-> 0]
  /\ surfaces = {}
  /\ visualEpoch = [v \in Visuals |-> -1]
  /\ failed = FALSE /\ calls = {} /\ emitted = NoEvent
  /\ beforeSwitch = NoSwitch
  /\ noop = "-"
  /\ snapshot = "-"
  /\ initCalls = 0 /\ disposeCalls = 0
  /\ pristine = TRUE
  /\ stoppedSincePlay = FALSE

\* ------------------------------------------------------------------ init()
\* init(visualContainer), up to `await this.audioChain.init()`: the chain's
\* init() has no await of its own, so its whole body runs here.
InitCall ==
  /\ initPc = "idle"
  /\ initCalls < MaxInitCalls
  /\ initCalls' = initCalls + 1
  /\ crossfade' = NewCrossfade
  /\ chainInitialized' = TRUE
  /\ lastCommandBy' = "none"
  /\ initPc' = "awaiting"
  /\ Log(FALSE, {}, NoEvent)
  /\ UNCHANGED <<ctrlVars, loads, visualLoads, plays, xfades, timers, rafPending,
                 pluginVars, disposeCalls, pristine, stoppedSincePlay>>

\* init(), resumed after the await: set the container, isInitialized and
\* the crossfade position 0.
InitResume ==
  /\ initPc = "awaiting"
  /\ initPc' = "idle"
  /\ visualContainer' = TRUE
  /\ isInitialized' = TRUE
  /\ \E thrown \in ChainUseThrows(crossfade) :
       /\ crossfade' = IF thrown THEN crossfade ELSE setCrossfade(crossfade, 0, 0)
       /\ lastCommandBy' = IF thrown THEN lastCommandBy ELSE "init"
       /\ Log(thrown, {}, NoEvent)
  /\ UNCHANGED <<deckA, deckB, activeDeck, visuals, animationId, chainInitialized,
                 loads, visualLoads, plays, xfades, timers, rafPending,
                 pluginVars, histVars>>

\* -------------------------------------------------------------- loadSong()
\* loadSong(songPath, deck), up to `await import(songPath)`.
LoadSongCall(deck) ==
  /\ Len(loads) < MaxLoads
  /\ nextSong + Cardinality({i \in DOMAIN loads : loads[i].pc = "import"}) < MaxSongs
  /\ loads' = Append(loads, [deck |-> deck, pc |-> "import", song |-> NoSong])
  /\ pristine' = FALSE
  /\ Log(FALSE, {}, NoEvent)
  /\ UNCHANGED <<ctrlVars, chainVars, initPc, visualLoads, plays, xfades, timers,
                 rafPending, pluginVars, initCalls, disposeCalls, stoppedSincePlay>>

\* The import settled.  ok: the module resolved and `new SongClass()`
\* returned; the call goes on to `await song.init()`.  Otherwise the call
\* rejects (catch: log and rethrow).
LoadSongImported(i, ok) ==
  /\ i \in DOMAIN loads
  /\ loads[i].pc = "import"
  /\ IF ok
       THEN /\ nextSong' = nextSong + 1
            /\ loads' = [loads EXCEPT ![i] = [@ EXCEPT !.pc = "init",
                                                       !.song = nextSong + 1]]
            /\ Log(FALSE, {<<nextSong + 1, "init">>}, NoEvent)
       ELSE /\ nextSong' = nextSong
            /\ loads' = RemoveAt(loads, i)
            /\ Log(TRUE, {}, NoEvent)
  /\ UNCHANGED <<ctrlVars, chainVars, initPc, visualLoads, plays, xfades, timers,
                 rafPending, songDisposed, nextVisual, visualDisposed, surfaces,
                 visualEpoch, histVars>>

\* Variant: the new song is stored first and the slot disposed after.
LoadDisposesAfterStore(deck, song) == {song}

\* The dispose() calls the synchronous tail of loadSong makes: on the old
\* occupant of the deck, before the new song is stored.
LoadDisposes(deck, song) == IF SongIn(deck) # NoSong THEN {SongIn(deck)} ELSE {}

\* AudioChain.connectToDeck(songOutput, deck): reads this.crossfade.a / .b
\* and calls songOutput.connect.  connectOk says whether the plugin's
\* getMasterOutput()/connect went through; a null crossfade always throws.
connectToDeck(cf, connectOk) == connectOk /\ cf.state # "null"

\* song.init() settled.  ok: the synchronous tail runs: dispose the old
\* occupant, store the new song, connect it to the chain, subscribe, emit
\* songLoaded.  Whatever throws in the tail leaves what ran before it.
LoadSongInited(i, ok, connectOk) ==
  /\ i \in DOMAIN loads
  /\ loads[i].pc = "init"
  /\ loads' = RemoveAt(loads, i)
  /\ LET deck == loads[i].deck
         song == loads[i].song
         gone == LoadDisposes(deck, song)
     IN IF ok
          THEN /\ songDisposed' = [s \in Songs |->
                                     IF s \in gone THEN songDisposed[s] + 1
                                     ELSE songDisposed[s]]
               /\ deckA' = IF deck = "A" THEN song ELSE deckA
               /\ deckB' = IF deck = "B" THEN song ELSE deckB
               /\ IF connectToDeck(crossfade, connectOk)
                    THEN Log(FALSE,
                             {<<s, "dispose">> : s \in gone}
                               \cup {<<song, "getMasterOutput">>},
                             Event("songLoaded", deck, "-", song))
                    ELSE Log(TRUE,
                             {<<s, "dispose">> : s \in gone}
                               \cup {<<song, "getMasterOutput">>},
                             NoEvent)
          ELSE /\ UNCHANGED <<songDisposed, deckA, deckB>>
               /\ connectOk
               /\ Log(TRUE, {}, NoEvent)
  /\ UNCHANGED <<activeDeck, visuals, visualContainer, isInitialized, animationId,
                 chainVars, initPc, visualLoads, plays, xfades, timers, rafPending,
                 nextSong, nextVisual, visualDisposed, surfaces, visualEpoch,
                 histVars>>

\* ------------------------------------------------------------ loadVisual()
\* loadVisual(visualPath, layer), up to `await import(visualPath)`.  The
\* layer only sets the canvas's z-index and is left out.
LoadVisualCall ==
  /\ Len(visualLoads) < MaxVisualLoads
  /\ nextVisual + Len(visualLoads) < MaxVisuals
  /\ visualLoads' = Append(visualLoads, [epoch |-> disposeCalls])
  /\ pristine' = FALSE
  /\ Log(FALSE, {}, NoEvent)
  /\ UNCHANGED <<ctrlVars, chainVars, initPc, loads, plays, xfades, timers,
                 rafPending, pluginVars, initCalls, disposeCalls, stoppedSincePlay>>

\* Variant: the visual is pushed before visual.init(canvas) is called.
pushBeforeInit(v, initOk) == Append(visuals, v)

\* this.visuals after `visual.init(canvas)` and `this.visuals.push(visual)`:
\* an init that throws leaves before the push.
pushAfterInit(v, initOk) == IF initOk THEN Append(visuals, v) ELSE visuals

\* The import settled.  importOk: the module resolved and the visual was
\* constructed.  Then the canvas is created and appended to the container
\* (a TypeError while the container is still null), visual.init(canvas)
\* runs (initOk) and the visual is pushed onto the list.
LoadVisualResume(i, importOk, initOk) ==
  /\ i \in DOMAIN visualLoads
  /\ visualLoads' = RemoveAt(visualLoads, i)
  /\ LET v == nextVisual + 1
     IN IF ~importOk
          THEN /\ initOk
               /\ UNCHANGED <<nextVisual, surfaces, visuals, visualEpoch>>
               /\ Log(TRUE, {}, NoEvent)
          ELSE /\ nextVisual' = v
               /\ IF ~visualContainer
                    THEN /\ initOk
                         /\ UNCHANGED <<surfaces, visuals, visualEpoch>>
                         /\ Log(TRUE, {}, NoEvent)
                    ELSE /\ surfaces' = surfaces \cup {v}
                         /\ visuals' = pushAfterInit(v, initOk)
                         /\ IF initOk
                              THEN /\ visualEpoch' = [visualEpoch EXCEPT
                                                        ![v] = visualLoads[i].epoch]
                                   /\ Log(FALSE, {},
                                          Event("visualLoaded", "-", "-", v))
                              ELSE /\ UNCHANGED visualEpoch
                                   /\ Log(TRUE, {}, NoEvent)
  /\ UNCHANGED <<deckA, deckB, activeDeck, visualContainer, isInitialized,
                 animationId, chainVars, initPc, loads, plays, xfades, timers,
                 rafPending, nextSong, songDisposed, visualDisposed, histVars>>

\* Variant: removeVisual without its `index > -1` test.
indexFoundAlways(v) == TRUE

\* const index = this.visuals.indexOf(visual); index > -1
indexFound(v) == v \in Range(visuals)

\* removeVisual(visual), for any visual constructed so far
RemoveVisual(v) ==
  /\ v \in 1..nextVisual
  /\ pristine' = FALSE
  /\ IF indexFound(v)
       THEN /\ visuals' = SelectSeq(visuals, LAMBDA x : x # v)
            /\ surfaces' = surfaces \ {v}
            /\ visualDisposed' = [visualDisposed EXCEPT ![v] = @ + 1]
            /\ Log(FALSE, {}, NoEvent)
       ELSE /\ UNCHANGED <<visuals, surfaces, visualDisposed>>
            /\ LogNoop("removeVisual")
  /\ UNCHANGED <<deckA, deckB, activeDeck, visualContainer, isInitialized,
                 animationId, chainVars, hostVars, nextSong, songDisposed,
                 nextVisual, visualEpoch, initCalls, disposeCalls, stoppedSincePlay>>

\* ------------------------------------------------------------------ play()
\* play(), up to `await Tone.start()`.
PlayCall ==
  /\ Len(plays) < MaxPlays
  /\ plays' = Append(plays, [pc |-> "start"])
  /\ pristine' = FALSE
  /\ stoppedSincePlay' = FALSE
  /\ Log(FALSE, {}, NoEvent)
  /\ UNCHANGED <<ctrlVars, chainVars, initPc, loads, visualLoads, xfades, timers,
                 rafPending, pluginVars, initCalls, disposeCalls>>

\* Tone.start() resolved: pick the active song now; with one, call its
\* play() and await it; without one, go straight on to the render loop.
PlayStarted(i) ==
  /\ i \in DOMAIN plays
  /\ plays[i].pc = "start"
  /\ IF SongIn(activeDeck) # NoSong
       THEN /\ plays' = [plays EXCEPT ![i] = [pc |-> "song"]]
            /\ UNCHANGED <<animationId, rafPending>>
            /\ Log(FALSE, {<<SongIn(activeDeck), "play">>}, NoEvent)
       ELSE /\ plays' = RemoveAt(plays, i)
            /\ animationId' = startRenderLoop.animationId
            /\ rafPending' = startRenderLoop.rafPending
            /\ Log(FALSE, {}, Event("play", activeDeck, "-", 0))
  /\ UNCHANGED <<deckA, deckB, activeDeck, visuals, visualContainer, isInitialized,
                 chainVars, initPc, loads, visualLoads, xfades, timers,
                 pluginVars, histVars>>

\* activeSong.play() settled: ok starts the render loop and emits `play`;
\* otherwise play() rejects.
PlayResumed(i, ok) ==
  /\ i \in DOMAIN plays
  /\ plays[i].pc = "song"
  /\ plays' = RemoveAt(plays, i)
  /\ IF ok
       THEN /\ animationId' = startRenderLoop.animationId
            /\ rafPending' = startRenderLoop.rafPending
            /\ Log(FALSE, {}, Event("play", activeDeck, "-", 0))
       ELSE /\ UNCHANGED <<animationId, rafPending>>
            /\ Log(TRUE, {}, NoEvent)
  /\ UNCHANGED <<deckA, deckB, activeDeck, visuals, visualContainer, isInitialized,
                 chainVars, initPc, loads, visualLoads, xfades, timers,
                 pluginVars, histVars>>

\* Variant: the operation picks the song of the other deck.
InactiveCalls(m) == IF SongIn(Other(activeDeck)) # NoSong
                      THEN {<<SongIn(Other(activeDeck)), m>>}
                      ELSE {}

\* The calls a transport operation forwards: method m on the song of the
\* active deck, if there is one.
ActiveCalls(m) == IF SongIn(activeDeck) # NoSong
                    THEN {<<SongIn(activeDeck), m>>}
                    ELSE {}

\* pause()
Pause ==
  /\ pristine' = FALSE
  /\ Log(FALSE, ActiveCalls("pause"), Event("pause", activeDeck, "-", 0))
  /\ UNCHANGED <<ctrlVars, chainVars, hostVars, pluginVars, initCalls, disposeCalls,
                 stoppedSincePlay>>

\* stop()
Stop ==
  /\ pristine' = FALSE
  /\ stoppedSincePlay' = TRUE
  /\ animationId' = stopRenderLoop.animationId
  /\ rafPending' = stopRenderLoop.rafPending
  /\ Log(FALSE, ActiveCalls("stop"), Event("stop", activeDeck, "-", 0))
  /\ UNCHANGED <<deckA, deckB, activeDeck, visuals, visualContainer, isInitialized,
                 chainVars, initPc, loads, visualLoads, plays, xfades, timers,
                 pluginVars, initCalls, disposeCalls>>

\* jumpToSection / muteTrack / unmuteTrack / setTempo
Delegate(m) ==
  /\ m \in {"jumpToSection", "muteTrack", "unmuteTrack", "setTempo"}
  /\ pristine' = FALSE
  /\ IF ActiveCalls(m) = {}
       THEN LogNoop(m)
       ELSE Log(FALSE, ActiveCalls(m), NoEvent)
  /\ UNCHANGED <<ctrlVars, chainVars, hostVars, pluginVars, initCalls, disposeCalls,
                 stoppedSincePlay>>

\* ---------------------------------------------------------- startCrossfade
\* Variant: the guard of startCrossfade looks at the active deck's song.
inactiveSongOfActiveDeck == SongIn(activeDeck)

\* const inactiveSong = this.activeDeck === 'A' ? this.deckB : this.deckA
inactiveSong == SongIn(Other(activeDeck))

\* startCrossfade(duration), up to `await inactiveSong.play()`.  targetDeck
\* and targetValue are captured here, from the activeDeck of this moment.
\* Without a song in the target deck: console.warn and return.
StartCrossfadeCall(duration) ==
  /\ pristine' = FALSE
  /\ IF inactiveSong = NoSong
       THEN /\ UNCHANGED xfades
            /\ LogNoop("startCrossfade")
       ELSE /\ Len(xfades) < MaxXfades
            /\ Len(xfades) + Len(timers) < MaxTimers
            /\ xfades' = Append(xfades, [targetDeck |-> Other(activeDeck),
                                         targetValue |-> PositionOf(Other(activeDeck)),
                                         duration |-> duration])
            /\ Log(FALSE,
                   {<<inactiveSong, "play">>},
                   Event("crossfadeStart", activeDeck, Other(activeDeck), duration))
  /\ UNCHANGED <<ctrlVars, chainVars, initPc, loads, visualLoads, plays, timers,
                 rafPending, pluginVars, initCalls, disposeCalls, stoppedSincePlay>>

\* inactiveSong.play() settled.  ok: command the ramp and schedule the
\* completion callback with the captured targetDeck.
StartCrossfadeResume(i, ok) ==
  /\ i \in DOMAIN xfades
  /\ xfades' = RemoveAt(xfades, i)
  /\ IF ~ok
       THEN /\ UNCHANGED <<crossfade, timers, lastCommandBy>>
            /\ Log(TRUE, {}, NoEvent)
       ELSE \E thrown \in ChainUseThrows(crossfade) :
              IF thrown
                THEN /\ UNCHANGED <<crossfade, timers, lastCommandBy>>
                     /\ Log(TRUE, {}, NoEvent)
                ELSE /\ crossfade' = setCrossfade(crossfade, xfades[i].targetValue,
                                                  xfades[i].duration)
                     /\ lastCommandBy' = "startCrossfade"
                     /\ timers' = Append(timers, [rem |-> xfades[i].duration,
                                                  targetDeck |-> xfades[i].targetDeck])
                     /\ Log(FALSE, {}, NoEvent)
  /\ UNCHANGED <<ctrlVars, chainInitialized, initPc, loads, visualLoads, plays,
                 rafPending, pluginVars, histVars>>

\* The timers that are due; the host runs due callbacks in the order they
\* were scheduled.
FirstDue == CHOOSE i \in DOMAIN timers :
              /\ timers[i].rem = 0
              /\ \A j \in 1..(i - 1) : timers[j].rem # 0

\* Variant: the callback leaves activeDeck as it is.
CompletionDeckKeep(t) == activeDeck

\* Variant: the callback reads a name its closure does not hold.
CompletionDeckUndefined(t) == "undefined"

\* The deck the completion callback of timer t makes active: the targetDeck
\* its startCrossfade captured.
CompletionDeck(t) == t.targetDeck

\* The setTimeout callback of startCrossfade: stop the song of the deck
\* that is active now, set activeDeck, emit crossfadeComplete.
CrossfadeTimeout ==
  /\ \E i \in DOMAIN timers : timers[i].rem = 0
  /\ timers' = RemoveAt(timers, FirstDue)
  /\ activeDeck' = CompletionDeck(timers[FirstDue])
  /\ Log(FALSE, ActiveCalls("stop"),
         Event("crossfadeComplete", CompletionDeck(timers[FirstDue]), "-", 0))
  /\ UNCHANGED <<deckA, deckB, visuals, visualContainer, isInitialized, animationId,
                 chainVars, initPc, loads, visualLoads, plays, xfades, rafPending,
                 pluginVars, histVars>>

\* The deck switchDeck() makes active.
SwitchTarget == Other(activeDeck)

\* No fade in flight on an initialised controller: init() has completed,
\* the crossfade node is live, no ramp runs, no completion is pending and
\* no startCrossfade call is suspended.
NoFadeInFlight ==
  /\ isInitialized /\ initPc = "idle"
  /\ crossfade.state = "live" /\ crossfade.rem = 0
  /\ timers = <<>> /\ xfades = <<>>

\* switchDeck()
SwitchDeck ==
  /\ pristine' = FALSE
  /\ \E thrown \in ChainUseThrows(crossfade) :
       IF thrown
         THEN /\ UNCHANGED <<crossfade, activeDeck, lastCommandBy>>
              /\ Log(TRUE, {}, NoEvent)
         ELSE /\ crossfade' = setCrossfade(crossfade, PositionOf(Other(activeDeck)), 0)
              /\ activeDeck' = SwitchTarget
              /\ lastCommandBy' = "switchDeck"
              /\ LogStep(FALSE, {}, Event("deckSwitch", SwitchTarget, "-", 0),
                         IF NoFadeInFlight
                           THEN [activeDeck |-> activeDeck, value |-> crossfade.value,
                                 by |-> lastCommandBy]
                           ELSE NoSwitch)
  /\ UNCHANGED <<deckA, deckB, visuals, visualContainer, isInitialized, animationId,
                 chainInitialized, hostVars, pluginVars, initCalls, disposeCalls,
                 stoppedSincePlay>>

\* ------------------------------------------------------------ frame, clock
\* The host runs the frame callback with handle h: render() draws and
\* schedules the next frame.
RenderFrame(h) ==
  /\ h \in rafPending
  /\ animationId' = RenderOnce(rafPending \ {h}).animationId
  /\ rafPending' = RenderOnce(rafPending \ {h}).rafPending
  /\ Log(FALSE, {}, NoEvent)
  /\ UNCHANGED <<deckA, deckB, activeDeck, visuals, visualContainer, isInitialized,
                 chainVars, initPc, loads, visualLoads, plays, xfades, timers,
                 pluginVars, histVars>>

\* One second passes: no timer is overdue; every timer and the audio
\* engine's ramp move on.
Tick ==
  /\ \A i \in DOMAIN timers : timers[i].rem > 0
  /\ timers # <<>> \/ crossfade.rem > 0
  /\ timers' = [i \in DOMAIN timers |-> [timers[i] EXCEPT !.rem = @ - 1]]
  /\ crossfade' = RampStep(crossfade)
  /\ lastCommandBy' = lastCommandBy
  /\ Log(FALSE, {}, NoEvent)
  /\ UNCHANGED <<ctrlVars, chainInitialized, initPc, loads, visualLoads, plays,
                 xfades, rafPending, pluginVars, histVars>>

\* --------------------------------------------------------------- dispose()
\* The songs dispose() tears down: this.deckA?.dispose(); this.deckB?.dispose()
DeckSongs == {deckA, deckB} \ {NoSong}

Dispose ==
  /\ disposeCalls < MaxDisposeCalls
  /\ disposeCalls' = disposeCalls + 1
  /\ pristine' = FALSE
  /\ animationId' = stopRenderLoop.animationId
  /\ rafPending' = stopRenderLoop.rafPending
  /\ surfaces' = surfaces \ Range(visuals)
  /\ visualDisposed' = [v \in Visuals |->
                          IF v \in Range(visuals) THEN visualDisposed[v] + 1
                          ELSE visualDisposed[v]]
  /\ visuals' = <<>>
  /\ songDisposed' = [s \in Songs |->
                        IF s \in DeckSongs THEN songDisposed[s] + 1
                        ELSE songDisposed[s]]
  /\ crossfade' = chainDispose(crossfade)
  /\ chainInitialized' = FALSE
  /\ lastCommandBy' = lastCommandBy
  /\ Log(FALSE, {<<s, "dispose">> : s \in DeckSongs}, NoEvent)
  /\ UNCHANGED <<deckA, deckB, activeDeck, visualContainer, isInitialized,
                 initPc, loads, visualLoads, plays, xfades, timers,
                 nextSong, nextVisual, visualEpoch, initCalls, stoppedSincePlay>>

\* -------------------------------------------------- the audio chain alone
\* The operations of AudioChain called on the object itself.
\* audioChain.init(): it has no await, its body runs in the call.
ChainInit ==
  /\ crossfade' = NewCrossfade
  /\ chainInitialized' = TRUE
  /\ lastCommandBy' = "none"
  /\ Log(FALSE, {}, NoEvent)
  /\ UNCHANGED <<ctrlVars, hostVars, pluginVars, histVars>>

\* audioChain.dispose()
ChainDispose ==
  /\ crossfade' = chainDispose(crossfade)
  /\ chainInitialized' = FALSE
  /\ lastCommandBy' = lastCommandBy
  /\ Log(FALSE, {}, NoEvent)
  /\ UNCHANGED <<ctrlVars, hostVars, pluginVars, histVars>>

\* audioChain.getAudioData()
ChainRead ==
  /\ failed' = (getAudioData = "throws")
  /\ calls' = {}
  /\ emitted' = NoEvent
  /\ beforeSwitch' = NoSwitch
  /\ noop' = "-"
  /\ snapshot' = getAudioData
  /\ UNCHANGED <<ctrlVars, chainVars, hostVars, pluginVars, histVars>>

\* audioChain.setCrossfade(value, rampTime)
ChainSetCrossfade(value, rampTime) ==
  /\ \E thrown \in ChainUseThrows(crossfade), rejected \in FadeRejects(value) :
       IF thrown \/ rejected
         THEN /\ UNCHANGED <<crossfade, lastCommandBy>>
              /\ Log(TRUE, {}, NoEvent)
         ELSE /\ crossfade' = setCrossfade(crossfade, value, rampTime)
              /\ lastCommandBy' = "setCrossfade"
              /\ Log(FALSE, {}, NoEvent)
  /\ UNCHANGED <<ctrlVars, chainInitialized, hostVars, pluginVars, histVars>>

NextChain ==
  \/ ChainInit
  \/ ChainDispose
  \/ ChainRead
  \/ \E value \in PositionInputs, rampTime \in Durations :
       ChainSetCrossfade(value, rampTime)
  \/ Tick

SpecChain == Init /\ [][NextChain]_vars

\* ------------------------------------------------------------------- Spec
Next ==
  \/ InitCall
  \/ InitResume
  \/ \E d \in Decks : LoadSongCall(d)
  \/ \E i \in 1..MaxLoads, ok \in BOOLEAN : LoadSongImported(i, ok)
  \/ \E i \in 1..MaxLoads, ok \in BOOLEAN, c \in BOOLEAN : LoadSongInited(i, ok, c)
  \/ LoadVisualCall
  \/ \E i \in 1..MaxVisualLoads, a \in BOOLEAN, b \in BOOLEAN : LoadVisualResume(i, a, b)
  \/ \E v \in Visuals : RemoveVisual(v)
  \/ PlayCall
  \/ \E i \in 1..MaxPlays : PlayStarted(i)
  \/ \E i \in 1..MaxPlays, ok \in BOOLEAN : PlayResumed(i, ok)
  \/ Pause
  \/ Stop
  \/ \E m \in {"jumpToSection", "muteTrack", "unmuteTrack", "setTempo"} : Delegate(m)
  \/ \E d \in Durations : StartCrossfadeCall(d)
  \/ \E i \in 1..MaxXfades, ok \in BOOLEAN : StartCrossfadeResume(i, ok)
  \/ CrossfadeTimeout
  \/ SwitchDeck
  \/ \E h \in rafPending : RenderFrame(h)
  \/ Tick
  \/ Dispose

Spec == Init /\ [][Next]_vars

\* The operations on the decks and the crossfade, without the render loop
\* and the visuals (which they neither read nor write).
NextDeck ==
  \/ InitCall
  \/ InitResume
  \/ \E d \in Decks : LoadSongCall(d)
  \/ \E i \in 1..MaxLoads, ok \in BOOLEAN : LoadSongImported(i, ok)
  \/ \E i \in 1..MaxLoads, ok \in BOOLEAN, c \in BOOLEAN : LoadSongInited(i, ok, c)
  \/ \E d \in Durations : StartCrossfadeCall(d)
  \/ \E i \in 1..MaxXfades, ok \in BOOLEAN : StartCrossfadeResume(i, ok)
  \/ CrossfadeTimeout
  \/ SwitchDeck
  \/ Tick
  \/ Dispose

SpecDeck == Init /\ [][NextDeck]_vars

\* The operations that start, run and stop the render loop.
NextRender ==
  \/ InitCall
  \/ InitResume
  \/ \E d \in Decks : LoadSongCall(d)
  \/ \E i \in 1..MaxLoads, ok \in BOOLEAN : LoadSongImported(i, ok)
  \/ \E i \in 1..MaxLoads, ok \in BOOLEAN, c \in BOOLEAN : LoadSongInited(i, ok, c)
  \/ PlayCall
  \/ \E i \in 1..MaxPlays : PlayStarted(i)
  \/ \E i \in 1..MaxPlays, ok \in BOOLEAN : PlayResumed(i, ok)
  \/ Stop
  \/ SwitchDeck
  \/ \E h \in rafPending : RenderFrame(h)
  \/ Dispose

SpecRender == Init /\ [][NextRender]_vars

\* The operations on the visual list.
NextVisual ==
  \/ InitCall
  \/ InitResume
  \/ LoadVisualCall
  \/ \E i \in 1..MaxVisualLoads, a \in BOOLEAN, b \in BOOLEAN : LoadVisualResume(i, a, b)
  \/ \E v \in Visuals : RemoveVisual(v)
  \/ PlayCall
  \/ \E i \in 1..MaxPlays : PlayStarted(i)
  \/ \E h \in rafPending : RenderFrame(h)
  \/ Dispose

SpecVisual == Init /\ [][NextVisual]_vars

\* loadSong, play, pause, stop, startCrossfade and its completion,
\* switchDeck and dispose together (the visuals and the frame callbacks,
\* which none of them reads, left out).
NextOps ==
  \/ NextDeck
  \/ PlayCall
  \/ \E i \in 1..MaxPlays : PlayStarted(i)
  \/ \E i \in 1..MaxPlays, ok \in BOOLEAN : PlayResumed(i, ok)
  \/ Pause
  \/ Stop

SpecOps == Init /\ [][NextOps]_vars

\* The transport operations (play, pause, stop and the delegates) on decks
\* that loadSong fills and switchDeck alternates.
NextTransport ==
  \/ InitCall
  \/ InitResume
  \/ \E d \in Decks : LoadSongCall(d)
  \/ \E i \in 1..MaxLoads, ok \in BOOLEAN : LoadSongImported(i, ok)
  \/ \E i \in 1..MaxLoads, ok \in BOOLEAN, c \in BOOLEAN : LoadSongInited(i, ok, c)
  \/ PlayCall
  \/ \E i \in 1..MaxPlays : PlayStarted(i)
  \/ \E i \in 1..MaxPlays, ok \in BOOLEAN : PlayResumed(i, ok)
  \/ Pause
  \/ Stop
  \/ \E m \in {"jumpToSection", "muteTrack", "unmuteTrack", "setTempo"} : Delegate(m)
  \/ SwitchDeck
  \/ Dispose

SpecTransport == Init /\ [][NextTransport]_vars

\* A caller that calls nothing more once it has called dispose(): the
\* operations are called before dispose() only, while what they left
\* suspended or scheduled goes on whenever the host runs it.
NextTeardown ==
  \/ /\ disposeCalls = 0
     /\ \/ InitCall
        \/ \E d \in Decks : LoadSongCall(d)
        \/ LoadVisualCall
        \/ PlayCall
        \/ \E d \in Durations : StartCrossfadeCall(d)
  \/ InitResume
  \/ \E i \in 1..MaxLoads, ok \in BOOLEAN : LoadSongImported(i, ok)
  \/ \E i \in 1..MaxLoads, ok \in BOOLEAN, c \in BOOLEAN : LoadSongInited(i, ok, c)
  \/ \E i \in 1..MaxVisualLoads, a \in BOOLEAN, b \in BOOLEAN : LoadVisualResume(i, a, b)
  \/ \E i \in 1..MaxPlays : PlayStarted(i)
  \/ \E i \in 1..MaxPlays, ok \in BOOLEAN : PlayResumed(i, ok)
  \/ \E i \in 1..MaxXfades, ok \in BOOLEAN : StartCrossfadeResume(i, ok)
  \/ CrossfadeTimeout
  \/ \E h \in rafPending : RenderFrame(h)
  \/ Tick
  \/ Dispose

SpecTeardown == Init /\ [][NextTeardown]_vars

\* ================================================================= claims
\* A completion callback ran in this step.
CompletionStep == Len(timers') < Len(timers)

\* C1: once every scheduled completion action has fired, activeDeck is the
\* deck the most recently issued crossfade position command targets (A for
\* position 0, B for position 1): the completion that leaves no completion
\* pending leaves activeDeck on the deck of the position that startCrossfade
\* or switchDeck commanded last.
C1_FinalDeckFollowsLastCommand ==
  [][(/\ CompletionStep
      /\ timers' = <<>>
      /\ lastCommandBy' \in {"startCrossfade", "switchDeck"})
       => activeDeck' = DeckOfPosition(crossfade'.target)]_vars

\* C2, first half: startCrossfade(d) with a song in both decks emits
\* crossfadeStart{from: active, to: other, duration: d} in the call itself.
C2_StartEmits ==
  \A d \in Durations :
    (StartCrossfadeCall(d) /\ deckA # NoSong /\ deckB # NoSong)
      => emitted' = Event("crossfadeStart", activeDeck, Other(activeDeck), d)

\* C2, second half: when the completion of the only fade fires, with
\* activeDeck still the deck X the fade started from, activeDeck becomes
\* other(X) and the song in deck X receives stop().
C2_CompletionFlips ==
  (/\ CompletionStep
   /\ Len(timers) = 1
   /\ timers[1].targetDeck = Other(activeDeck)
   /\ deckA # NoSong /\ deckB # NoSong)
    => /\ activeDeck' = Other(activeDeck)
       /\ <<SongIn(activeDeck), "stop">> \in calls'
       /\ emitted' = Event("crossfadeComplete", Other(activeDeck), "-", 0)

\* C2: with a song in both decks, startCrossfade(d) from active deck X
\* emits crossfadeStart{from: X, to: other(X), duration: d} at once, and
\* its completion makes other(X) active and stops the song in deck X.
C2_CrossfadeScenario == [][C2_StartEmits /\ C2_CompletionFlips]_vars

\* C2's case: a completion has just fired with both decks loaded; it
\* stopped the song of the deck that is now inactive.
C2_Witness ==
  /\ emitted.topic = "crossfadeComplete"
  /\ deckA # NoSong /\ deckB # NoSong
  /\ timers = <<>>
  /\ activeDeck = emitted.deck
  /\ <<SongIn(Other(activeDeck)), "stop">> \in calls

\* C3: activeDeck is one of A and B in every state and getState() reports
\* it; before any operation is called activeDeck is A and no fade is in
\* flight, and once init() has completed the crossfade position is 0.
C3_ActiveDeckDefined ==
  /\ activeDeck \in Decks
  /\ getState.activeDeck = activeDeck
  /\ getState.activeDeck \in Decks
  /\ pristine => (activeDeck = "A" /\ timers = <<>> /\ xfades = <<>>)
  /\ (pristine /\ isInitialized /\ initPc = "idle")
       => (crossfade.value = 0 /\ crossfade.rem = 0)

\* C3's case: operations of every kind have run (loads, a completion or a
\* switch that made B active, a stop, a dispose).
C3_Witness ==
  /\ activeDeck = "B"
  /\ deckA # NoSong /\ deckB # NoSong
  /\ stoppedSincePlay
  /\ disposeCalls > 0

\* A crossfade position command is issued in this step: the ramp of a
\* startCrossfade (issued together with its timer) or switchDeck's assignment.
PositionCommandStep ==
  \/ Len(timers') > Len(timers)
  \/ emitted'.topic = "deckSwitch"

\* C4: while a completion action is pending no other crossfade position
\* command is issued, so at most one completion action is pending.
C4_SingleFlight ==
  [][(timers # <<>>) => (~PositionCommandStep /\ Len(timers') <= 1)]_vars

\* A switchDeck() call made with no fade in flight ran in this step.
QuietSwitchStep == NoFadeInFlight /\ emitted'.topic = "deckSwitch"

\* C5, first half: the state right after such a call.
C5_SwitchIsInstant ==
  QuietSwitchStep
    => /\ activeDeck' = Other(activeDeck)
       /\ crossfade'.value = PositionOf(activeDeck')
       /\ crossfade'.rem = 0
       /\ timers' = <<>> /\ xfades' = <<>>
       /\ rafPending' = rafPending
       /\ calls' = {}

\* C5, second half: the second of two consecutive such calls restores the
\* activeDeck and the position from before the first (a position that a
\* crossfade or a switch had commanded).
C5_SwitchTwiceRestores ==
  (/\ QuietSwitchStep
   /\ beforeSwitch # NoSwitch
   /\ beforeSwitch.by \in {"startCrossfade", "switchDeck"})
    => /\ activeDeck' = beforeSwitch.activeDeck
       /\ crossfade'.value = beforeSwitch.value

\* C5: switchDeck() with no fade in flight flips activeDeck and sets the
\* position to the new active deck's extreme at once, schedules nothing
\* and calls no song; two consecutive calls restore activeDeck and position.
C5_SwitchDeckRoundTrip == [][C5_SwitchIsInstant /\ C5_SwitchTwiceRestores]_vars

\* A loadSong call ended in failure in this step.
LoadFailStep == Len(loads') < Len(loads) /\ failed'

\* C6: a loadSong call that ends in failure leaves both deck slots, every
\* song's dispose() count, activeDeck and the crossfade position as they
\* were.
C6_FailedLoadLeavesState ==
  [][LoadFailStep
       => /\ deckA' = deckA /\ deckB' = deckB
          /\ songDisposed' = songDisposed
          /\ activeDeck' = activeDeck
          /\ crossfade' = crossfade]_vars

\* C7, in states: as long as the controller itself was not disposed, no
\* song has received more than one dispose(), a song held by a slot has
\* received none, and the two slots never hold the same song.
C7_SlotsHoldLiveSongs ==
  (disposeCalls = 0)
    => /\ \A s \in Songs : /\ songDisposed[s] <= 1
                           /\ s \in {deckA, deckB} => songDisposed[s] = 0
       /\ deckA = deckB => deckA = NoSong

\* C7, in steps: a loadSong that succeeds into an occupied deck calls
\* dispose() on the old occupant once and on no other song, and leaves the
\* new song, and not the old one, in the slot.
C7_ReplaceDisposesOld ==
  (emitted'.topic = "songLoaded" /\ SongIn(emitted'.deck) # NoSong)
    => LET old == SongIn(emitted'.deck)
           new == emitted'.n
       IN /\ songDisposed'[old] = songDisposed[old] + 1
          /\ \A s \in Songs \ {old} : songDisposed'[s] = songDisposed[s]
          /\ <<old, "dispose">> \in calls'
          /\ <<new, "dispose">> \notin calls'
          /\ (IF emitted'.deck = "A" THEN deckA' ELSE deckB') = new
          /\ old \notin {deckA', deckB'}

\* C7: every successful loadSong into an occupied deck disposes the
\* replaced song exactly once, before the new song is stored, and leaves
\* only the new song in the slot, also when loads into one deck overlap.
C7_ReplacedSongDisposedOnce ==
  []C7_SlotsHoldLiveSongs /\ [][C7_ReplaceDisposesOld]_vars

\* C7's case: a load has just replaced a song, which was disposed once.
C7_Witness ==
  /\ emitted.topic = "songLoaded"
  /\ disposeCalls = 0
  /\ \E s \in Songs : /\ <<s, "dispose">> \in calls
                      /\ songDisposed[s] = 1
                      /\ s \notin {deckA, deckB}
  /\ SongIn(emitted.deck) = emitted.n

\* C8: once stop() was called and play() was not called after it, no frame
\* callback is outstanding and the loop handle is clear, so no render tick
\* runs.
C8_StopHaltsLoop ==
  stoppedSincePlay => (rafPending = {} /\ animationId = 0)

\* C9, in states: at most one frame callback is outstanding, and it is the
\* one this.animationId names.
C9_OneCallback ==
  /\ Cardinality(rafPending) <= 1
  /\ rafPending = (IF animationId = 0 THEN {} ELSE {animationId})

\* C9, in steps: stop() and dispose() leave no callback and a cleared
\* handle; a play() that goes through leaves exactly one callback, and the
\* same one if the loop was already running.
C9_StartStop ==
  /\ (emitted'.topic = "stop" \/ disposeCalls' > disposeCalls)
       => (rafPending' = {} /\ animationId' = 0)
  /\ emitted'.topic = "play"
       => /\ Cardinality(rafPending') = 1
          /\ rafPending # {} => rafPending' = rafPending

\* C9: the render loop holds at most one outstanding frame callback;
\* starting it while it runs schedules nothing more, stopping it leaves
\* no callback and a cleared handle, and a later start works again.
C9_RenderLoopSingleCallback == []C9_OneCallback /\ [][C9_StartStop]_vars

\* C9's case: a play() has just gone through while the loop was running
\* (on a callback that a frame, not a start, had scheduled: the second
\* handle), and that callback is still the only one.
C9_Witness ==
  /\ emitted.topic = "play"
  /\ animationId = 2
  /\ Cardinality(rafPending) = 1
  /\ animationId \in rafPending

\* C10, in states: after dispose(), every visual loaded by a loadVisual
\* call made before it has received dispose() exactly once, has its surface
\* removed and is not on the list.
C10_LoadedVisualsTornDown ==
  \A v \in Visuals :
    (visualEpoch[v] >= 0 /\ visualEpoch[v] < disposeCalls)
      => /\ visualDisposed[v] = 1
         /\ v \notin surfaces
         /\ v \notin Range(visuals)

\* C10: dispose() leaves the visual list empty, and every visual of a
\* preceding loadVisual call disposed exactly once with its surface
\* removed, whether or not that call had resolved when dispose() ran.
C10_DisposeTearsDownVisuals ==
  []C10_LoadedVisualsTornDown /\ [][disposeCalls' > disposeCalls => visuals' = <<>>]_vars

\* A startCrossfade call made while the inactive deck holds no song ran in
\* this step.
NoTargetCrossfadeStep ==
  /\ SongIn(Other(activeDeck)) = NoSong
  /\ \E d \in Durations : StartCrossfadeCall(d)

\* C11: startCrossfade called while the inactive deck holds no song is a
\* no-op: it emits no event, commands no crossfade position, schedules no
\* completion, calls no song, leaves activeDeck (and the decks) unchanged,
\* and does not fail.
C11_NoTargetCrossfadeIsNoop ==
  [][NoTargetCrossfadeStep
       => /\ emitted' = NoEvent
          /\ crossfade' = crossfade /\ lastCommandBy' = lastCommandBy
          /\ timers' = timers /\ xfades' = xfades
          /\ calls' = {}
          /\ activeDeck' = activeDeck /\ deckA' = deckA /\ deckB' = deckB
          /\ ~failed']_vars

\* C11's case: startCrossfade has just returned early on an initialised
\* controller whose active deck is loaded and whose other deck is empty.
C11_Witness ==
  /\ noop = "startCrossfade"
  /\ isInitialized
  /\ SongIn(activeDeck) # NoSong
  /\ SongIn(Other(activeDeck)) = NoSong
  /\ timers = <<>> /\ xfades = <<>>

\* The methods pause, stop and the delegates forward.
TransportMethods ==
  {"pause", "stop", "jumpToSection", "muteTrack", "unmuteTrack", "setTempo"}

\* The operation that forwards method m was called in this step.
TransportCall(m) == IF m = "pause" THEN Pause
                    ELSE IF m = "stop" THEN Stop
                    ELSE Delegate(m)

\* C12: pause, stop and the delegates call their method on the song of the
\* deck that is active when they are called and on no other song; with an
\* empty active deck they call nothing, do not fail and leave activeDeck,
\* both deck slots and the crossfade position unchanged.
C12_TransportGoesToActiveSong ==
  [][\A m \in TransportMethods :
       TransportCall(m)
         => /\ SongIn(activeDeck) # NoSong => calls' = {<<SongIn(activeDeck), m>>}
            /\ \A c \in calls' : c[1] # SongIn(Other(activeDeck))
            /\ SongIn(activeDeck) = NoSong
                 => /\ calls' = {}
                    /\ ~failed'
                    /\ activeDeck' = activeDeck
                    /\ deckA' = deckA /\ deckB' = deckB
                    /\ crossfade' = crossfade]_vars

\* C12's case: muteTrack has just been called with the active deck empty
\* and a song in the inactive deck; the song was not called.
C12_Witness ==
  /\ noop = "muteTrack"
  /\ isInitialized /\ initPc = "idle"
  /\ SongIn(activeDeck) = NoSong
  /\ SongIn(Other(activeDeck)) # NoSong
  /\ songDisposed[SongIn(Other(activeDeck))] = 0
  /\ calls = {}
  /\ ~failed

\* A loadVisual call ended in failure in this step.
LoadVisualFailStep == Len(visualLoads') < Len(visualLoads) /\ failed'

\* C13: a loadVisual call that fails at any step (the import, the
\* construction, the container, the visual's init) leaves the visual list
\* as it was.
C13_FailedVisualNotListed ==
  [][LoadVisualFailStep => visuals' = visuals]_vars

\* C13's case: with one visual on the list, a second loadVisual has just
\* failed in the visual's init, after its canvas was appended.
C13_Witness ==
  /\ failed
  /\ visualLoads = <<>>
  /\ nextVisual = 2
  /\ visuals = <<1>>
  /\ 2 \in surfaces

\* C14, in steps: removeVisual(v) of a listed visual takes it off the
\* list, removes its surface and calls its dispose() once, touching no
\* other visual; removeVisual(v) of a visual that is not listed changes
\* nothing, calls no teardown hook and does not fail.
C14_RemoveOnceThenNothing ==
  \A v \in Visuals :
    RemoveVisual(v)
      => /\ ~failed'
         /\ v \notin Range(visuals')
         /\ \A w \in Visuals \ {v} :
              /\ visualDisposed'[w] = visualDisposed[w]
              /\ (w \in surfaces') = (w \in surfaces)
         /\ IF v \in Range(visuals)
              THEN /\ visuals' = SelectSeq(visuals, LAMBDA x : x # v)
                   /\ v \notin surfaces'
                   /\ visualDisposed'[v] = visualDisposed[v] + 1
              ELSE /\ visuals' = visuals
                   /\ surfaces' = surfaces
                   /\ visualDisposed'[v] = visualDisposed[v]

\* C14, in states: no visual has received dispose() more than once, and
\* none that is on the list has received it.
C14_DisposedAtMostOnce ==
  \A v \in Visuals : /\ visualDisposed[v] <= 1
                      /\ v \in Range(visuals) => visualDisposed[v] = 0

\* C14: removeVisual is idempotent: two calls with the same visual remove
\* it from the list, remove its surface and dispose it exactly once in
\* total; the second call, like any call with an unlisted visual, is a
\* no-op.
C14_RemoveVisualIdempotent ==
  []C14_DisposedAtMostOnce /\ [][C14_RemoveOnceThenNothing]_vars

\* C14's case: removeVisual has just been called a second time with the
\* visual it had removed: disposed once, off the list, its surface gone.
C14_Witness ==
  /\ noop = "removeVisual"
  /\ disposeCalls = 0
  /\ nextVisual = 1
  /\ visualEpoch[1] = 0
  /\ visualDisposed[1] = 1
  /\ visuals = <<>>
  /\ surfaces = {}

\* C15: getAudioData() never fails, and whenever the chain is not
\* initialised (its nodes still null before init(), or released by
\* dispose()) it returns the default snapshot, never data read from
\* released nodes; this for every sequence of init, dispose and reads.
C15_SnapshotDefaultsWhenUninitialized ==
  /\ getAudioData \in {"defaults", "analysis"}
  /\ crossfade.state \in {"null", "disposed"} => getAudioData = "defaults"
  /\ snapshot \in {"-", "defaults", "analysis"}
  /\ snapshot # "-" => ~failed

\* C15's case: the chain was initialised and disposed, and a read has just
\* returned the defaults.
C15_Witness ==
  /\ snapshot = "defaults"
  /\ crossfade.state = "disposed"
  /\ ~chainInitialized
  /\ ~failed

\* C16: AudioChain.setCrossfade never produces a position outside [0, 1]:
\* whatever value and ramp time it is given, the crossfade position and
\* the target of its ramp are within [0, 1] (0..PosScale in model units).
C16_PositionWithinUnitInterval ==
  /\ crossfade.value \in 0..PosScale
  /\ crossfade.target \in 0..PosScale

\* C17: a completion action never calls stop() on the song held by the
\* deck that is activeDeck once the action has finished: it stops only the
\* song of the deck that is inactive after it.
C17_CompletionStopsInactiveOnly ==
  [][CompletionStep
       => \A c \in calls' :
            c[2] = "stop"
              => c[1] # (IF activeDeck' = "A" THEN deckA' ELSE deckB')]_vars

\* A startCrossfade call that had emitted crossfadeStart ended in this
\* step (its `await inactiveSong.play()` settled and the call ran to its end).
StartedFadeEndStep == Len(xfades') < Len(xfades)

\* C18: every crossfadeStart{from, to, duration} is followed by exactly one
\* crossfadeComplete{activeDeck: to}, also when the target song's play()
\* fails after crossfadeStart, and no crossfadeComplete comes without a
\* crossfadeStart.  Only a scheduled completion emits crossfadeComplete,
\* and it emits it once: so every call that has emitted crossfadeStart
\* ends by scheduling one completion for its `to`, every completion that
\* fires emits crossfadeComplete for the `to` of its call, and nothing
\* else emits it.
C18_StartIsCompletedOnce ==
  [][/\ StartedFadeEndStep
          => \E i \in DOMAIN xfades :
               /\ xfades' = RemoveAt(xfades, i)
               /\ Len(timers') = Len(timers) + 1
               /\ timers'[Len(timers')].targetDeck = xfades[i].targetDeck
     /\ CompletionStep
          => emitted' = Event("crossfadeComplete", timers[FirstDue].targetDeck, "-", 0)
     /\ emitted'.topic = "crossfadeComplete" => CompletionStep
     /\ emitted'.topic = "crossfadeStart"
          => /\ Len(xfades') = Len(xfades) + 1
             /\ xfades'[Len(xfades')].targetDeck = emitted'.to]_vars

\* C19: once dispose() has run, nothing that was pending when it was
\* called changes activeDeck, stores a song in a deck slot, appends a
\* visual, restarts the render loop or calls a method on a song that has
\* been disposed.  With a caller that calls nothing after dispose(), every
\* step after it is such a continuation (or one that a continuation left).
C19_StaysTornDown ==
  [][(disposeCalls > 0 /\ disposeCalls' = disposeCalls)
       => /\ activeDeck' = activeDeck
          /\ deckA' = deckA /\ deckB' = deckB
          /\ visuals' = visuals
          /\ animationId' = 0 /\ rafPending' = {}
          /\ \A c \in calls' : songDisposed[c[1]] = 0]_vars

\* C20: in every reachable state the surfaces attached to the container
\* and the listed visuals correspond one to one: every attached surface
\* belongs to a listed visual, every listed visual has its surface
\* attached, and no visual is listed twice.
C20_SurfacesMatchVisuals ==
  /\ surfaces = Range(visuals)
  /\ Cardinality(Range(visuals)) = Len(visuals)

====
